---- MODULE Spec2Model ----
(***************************************************************************)
(* generate_backtest_plots (maturagraph.py): a backtest trade log is       *)
(* loaded into a table, sorted by exit time, extended by the no-spread     *)
(* series, and up to five charts are saved.                                *)
(*                                                                         *)
(* A table cell is a sequence of length <= 1: <<v>> holds the value v and  *)
(* <<>> is the missing value (NaN / NaT).  A raw trade record is a         *)
(* function from the keys it carries to their raw JSON values.  Prices     *)
(* and amounts are integers; timestamps are day numbers.                   *)
(***************************************************************************)
EXTENDS Integers, Sequences, FiniteSets, TLC

\* Longest trade list of the input artifact.
MaxTrades == 2

\* config.INITIAL_CAPITAL
INITIAL_CAPITAL == 1000

NaN == <<>>
NaT == <<>>

Fields ==
    {"entry_time", "exit_time", "mid_price_entry", "mid_price_exit",
     "position_size", "direction", "slippage_entry", "slippage_exit",
     "capital_after_exit", "net_pnl"}

(***************************************************************************)
(* Inputs.  The log is written in chronological order: record i closes on  *)
(* day i + 1.  One record of a log may differ from the well-formed record  *)
(* in one key left out (entry_time, which only the writer may omit, is no  *)
(* such key), or in one other value (an earlier or equal exit day, an      *)
(* unparsable date, a zero price, another direction, a slippage, a zero or *)
(* negative PnL).                                                          *)
(***************************************************************************)
Dates ==
    <<"2024-01-01", "2024-01-02", "2024-01-03", "2024-01-04", "2024-01-05",
      "2024-01-06", "2024-01-07", "2024-01-08", "2024-01-09">>

FullTrade(i) ==
    [f \in Fields |->
        CASE f = "entry_time" -> Dates[1]
          [] f = "exit_time" -> Dates[i + 1]
          [] f = "mid_price_entry" -> 100
          [] f = "mid_price_exit" -> 110
          [] f = "position_size" -> 2
          [] f = "direction" -> "LONG"
          [] f = "slippage_entry" -> 0
          [] f = "slippage_exit" -> 0
          [] f = "capital_after_exit" -> 1020
          [] f = "net_pnl" -> 5]

OtherValues(f) ==
    CASE f = "exit_time" -> {Dates[1], Dates[2], "not a date"}
      [] f = "mid_price_exit" -> {0}
      [] f = "direction" -> {"SHORT", "FLAT"}
      [] f = "slippage_entry" -> {1}
      [] f = "slippage_exit" -> {1}
      [] f = "net_pnl" -> {0, -5}
      [] OTHER -> {}

Restrict(r, S) == [f \in S |-> r[f]]

Variants(r) ==
    {r} \cup {Restrict(r, DOMAIN r \ {f}) : f \in DOMAIN r \ {"entry_time"}}
        \cup UNION {{[r EXCEPT ![f] = v] : v \in OtherValues(f)} : f \in DOMAIN r}

\* The keys the log's writer emits: all of them, or all but one.
Schemas == {Fields \ {a} : a \in Fields} \cup {Fields}

RECURSIVE ListsOfLength(_, _)
ListsOfLength(S, n) ==
    IF n = 0 THEN {<<>>}
    ELSE {Append(t, r) : t \in ListsOfLength(S, n - 1),
                         r \in Variants(Restrict(FullTrade(n), S))}

TradeLists(S) == UNION {ListsOfLength(S, n) : n \in 0..MaxTrades}

EmptyDict == <<>>

VARIABLES
    exists,            \* os.path.exists(results_path)
    data,              \* the parsed artifact: a dict with or without "trades"
    pc,                \* position in generate_backtest_plots
    df,                \* the DataFrame: a sequence of rows, column -> cell
    indexer,           \* the row order sort_values applied (file positions)
    dir_made,          \* os.makedirs(output_dir) has run
    overlay,           \* the "Ohne Spread" curve was plotted
    buy_hold_capital,  \* the benchmark series (empty until computed)
    colors,            \* the bar colours (empty until computed)
    saved,             \* chart artifacts written
    out,               \* console lines
    raised             \* the exception that left the function, "" if none

vars ==
    <<exists, data, pc, df, indexer, dir_made, overlay, buy_hold_capital,
      colors, saved, out, raised>>

----------------------------------------------------------------------------
(* dict.get(key, default) *)
Get(d, k, default) == IF k \in DOMAIN d THEN d[k] ELSE default

(* pd.DataFrame(trades): the columns are the union of the records' keys; a *)
(* key a record lacks is a missing cell.                                   *)
Columns(d) == IF d = <<>> THEN {} ELSE DOMAIN d[1]

DataFrame(trades) ==
    LET cols == UNION {DOMAIN trades[i] : i \in DOMAIN trades}
    IN  [i \in DOMAIN trades |->
            [c \in cols |-> IF c \in DOMAIN trades[i] THEN <<trades[i][c]>> ELSE NaN]]

(* pd.to_datetime(..., errors="coerce") on one cell *)
to_datetime(cell) ==
    IF cell = NaN THEN NaT
    ELSE IF \E k \in DOMAIN Dates : Dates[k] = cell[1]
         THEN <<CHOOSE k \in DOMAIN Dates : Dates[k] = cell[1]>>
         ELSE NaT

ConvertTimes(d) ==
    [i \in DOMAIN d |->
        [c \in DOMAIN d[i] |->
            IF c \in {"entry_time", "exit_time"} THEN to_datetime(d[i][c]) ELSE d[i][c]]]

(* `trades is None` in place of `not trades` *)
NoTradesOnlyNone(t) == FALSE

(* `not trades` *)
NoTrades(t) == t = <<>>

Init ==
    /\ exists \in BOOLEAN
    /\ \E S \in Schemas : \E t \in TradeLists(S) :
          data \in (IF exists THEN {EmptyDict, [k \in {"trades"} |-> t]} ELSE {EmptyDict})
    /\ pc = "load"
    /\ df = <<>>
    /\ indexer = <<>>
    /\ dir_made = FALSE
    /\ overlay = FALSE
    /\ buy_hold_capital = <<>>
    /\ colors = <<>>
    /\ saved = {}
    /\ out = <<>>
    /\ raised = ""

(* lines 36-38 *)
LoadMissing ==
    /\ pc = "load"
    /\ ~exists
    /\ out' = Append(out, <<"WARN", "Backtest results file not found">>)
    /\ pc' = "done"
    /\ UNCHANGED <<exists, data, df, indexer, dir_made, overlay, buy_hold_capital,
                   colors, saved, raised>>

(* lines 40-46 *)
LoadEmpty ==
    /\ pc = "load"
    /\ exists
    /\ NoTrades(Get(data, "trades", <<>>))
    /\ out' = Append(out, <<"WARN", "No trades found in backtest results">>)
    /\ pc' = "done"
    /\ UNCHANGED <<exists, data, df, indexer, dir_made, overlay, buy_hold_capital,
                   colors, saved, raised>>

(* lines 40-53 *)
LoadFrame ==
    /\ pc = "load"
    /\ exists
    /\ ~NoTrades(Get(data, "trades", <<>>))
    /\ df' = ConvertTimes(DataFrame(Get(data, "trades", <<>>)))
    /\ pc' = "sort"
    /\ UNCHANGED <<exists, data, indexer, dir_made, overlay, buy_hold_capital,
                   colors, saved, out, raised>>

----------------------------------------------------------------------------
(* df.sort_values("exit_time"): pandas' nargsort argsorts the rows that     *)
(* have a timestamp with numpy's default kind, "quicksort", and appends the *)
(* NaT rows in their original order (na_position="last").  quicksort is not *)
(* a stable sort: rows with equal keys may come out in either order, so the *)
(* result is any of the indexers below.                                     *)
Injective(p) == \A i, j \in DOMAIN p : p[i] = p[j] => i = j

IsAscending(d, p) ==
    \A i, j \in DOMAIN p :
        i < j =>
            \/ d[p[j]]["exit_time"] = NaT /\ d[p[i]]["exit_time"] = NaT /\ p[i] < p[j]
            \/ d[p[j]]["exit_time"] = NaT /\ d[p[i]]["exit_time"] # NaT
            \/ /\ d[p[i]]["exit_time"] # NaT
               /\ d[p[j]]["exit_time"] # NaT
               /\ d[p[i]]["exit_time"][1] <= d[p[j]]["exit_time"][1]

(* ascending=False *)
SortIndexersDescending(d) ==
    {p \in [DOMAIN d -> DOMAIN d] :
        Injective(p) /\ IsAscending(d, [i \in DOMAIN p |-> p[Len(d) + 1 - i]])}

SortIndexers(d) ==
    {p \in [DOMAIN d -> DOMAIN d] : Injective(p) /\ IsAscending(d, p)}

(* .reset_index(drop=True): the rows in indexer order, renumbered *)
Take(d, p) == [i \in DOMAIN p |-> d[p[i]]]

(* lines 56-57 *)
SortValues ==
    /\ pc = "sort"
    /\ IF "exit_time" \in Columns(df)
       THEN \E p \in SortIndexers(df) :
                /\ indexer' = p
                /\ df' = Take(df, p)
       ELSE /\ indexer' = [i \in DOMAIN df |-> i]
            /\ df' = df
    /\ pc' = "derive"
    /\ UNCHANGED <<exists, data, dir_made, overlay, buy_hold_capital, colors,
                   saved, out, raised>>

----------------------------------------------------------------------------
(* Float arithmetic on cells: a missing operand gives a missing result. *)
Add(a, b) == IF a = NaN \/ b = NaN THEN NaN ELSE <<a[1] + b[1]>>
Sub(a, b) == IF a = NaN \/ b = NaN THEN NaN ELSE <<a[1] - b[1]>>
Mul(a, b) == IF a = NaN \/ b = NaN THEN NaN ELSE <<a[1] * b[1]>>

(* .fillna(0.0) *)
fillna(cell) == IF cell = NaN THEN <<0>> ELSE cell

(* df["direction"].map({"LONG": 1.0, "SHORT": -1.0}).fillna(0.0) *)
dir_sign(cell) ==
    fillna(IF cell = <<"LONG">> THEN <<1>>
           ELSE IF cell = <<"SHORT">> THEN <<-1>>
           ELSE NaN)

(* the final `* dir_sign` left out *)
pnl_no_spread_unsigned(row) ==
    LET sign == dir_sign(row["direction"])
        slip_entry == fillna(row["slippage_entry"])
        slip_exit == fillna(row["slippage_exit"])
        entry_no_spread == Add(row["mid_price_entry"], Mul(sign, slip_entry))
        exit_no_spread == Sub(row["mid_price_exit"], Mul(sign, slip_exit))
    IN  Mul(Sub(exit_no_spread, entry_no_spread), row["position_size"])

(* lines 69-77, one row *)
pnl_no_spread(row) ==
    LET sign == dir_sign(row["direction"])
        slip_entry == fillna(row["slippage_entry"])
        slip_exit == fillna(row["slippage_exit"])
        entry_no_spread == Add(row["mid_price_entry"], Mul(sign, slip_entry))
        exit_no_spread == Sub(row["mid_price_exit"], Mul(sign, slip_exit))
    IN  Mul(Mul(Sub(exit_no_spread, entry_no_spread), sign), row["position_size"])

(* Series.cumsum(): skipna, so a missing entry stays missing and is left   *)
(* out of the running total.                                               *)
RECURSIVE RunningTotal(_, _)
RunningTotal(s, i) ==
    IF i = 0 THEN 0
    ELSE RunningTotal(s, i - 1) + (IF s[i] = NaN THEN 0 ELSE s[i][1])

(* cumsum(skipna=False): everything after a missing entry is missing *)
cumsum_propagating(s) ==
    [i \in DOMAIN s |->
        IF \E k \in 1..i : s[k] = NaN THEN NaN ELSE <<RunningTotal(s, i)>>]

cumsum(s) == [i \in DOMAIN s |-> IF s[i] = NaN THEN NaN ELSE <<RunningTotal(s, i)>>]

no_spread_cols ==
    {"mid_price_entry", "mid_price_exit", "position_size", "direction",
     "slippage_entry", "slippage_exit"}

(* the columns gated on every record carrying a value *)
HasNoSpreadColsOnEveryRow(d) ==
    /\ no_spread_cols \subseteq Columns(d)
    /\ \A i \in DOMAIN d : \A c \in no_spread_cols : d[i][c] # NaN

(* no_spread_cols.issubset(df.columns) *)
HasNoSpreadCols(d) == no_spread_cols \subseteq Columns(d)

WithNoSpread(d) ==
    LET pnl == [i \in DOMAIN d |-> pnl_no_spread(d[i])]
        cum == cumsum(pnl)
    IN  [i \in DOMAIN d |->
            [c \in DOMAIN d[i] \cup {"pnl_no_spread", "capital_no_spread"} |->
                IF c = "pnl_no_spread" THEN pnl[i]
                ELSE IF c = "capital_no_spread" THEN Add(<<INITIAL_CAPITAL>>, cum[i])
                ELSE d[i][c]]]

(* lines 68-81 *)
Derive ==
    /\ pc = "derive"
    /\ df' = IF HasNoSpreadCols(df) THEN WithNoSpread(df) ELSE df
    /\ dir_made' = TRUE
    /\ pc' = "equity"
    /\ UNCHANGED <<exists, data, indexer, overlay, buy_hold_capital, colors,
                   saved, out, raised>>

----------------------------------------------------------------------------
(* fig.savefig(path); print(f"[SAVE] {path}") *)
Save(chart) ==
    /\ saved' = saved \cup {chart}
    /\ out' = Append(out, <<"SAVE", chart>>)

(* lines 84-111 *)
EquityCurve ==
    /\ pc = "equity"
    /\ IF {"exit_time", "capital_after_exit"} \subseteq Columns(df)
       THEN /\ overlay' = ("capital_no_spread" \in Columns(df))
            /\ Save("equity_curve")
       ELSE UNCHANGED <<overlay, saved, out>>
    /\ pc' = "buyhold"
    /\ UNCHANGED <<exists, data, df, indexer, dir_made, buy_hold_capital, colors, raised>>

(* pd.notna(base_price) and base_price != 0 *)
ValidBase(base_price) == base_price # NaN /\ base_price[1] # 0

(* config.INITIAL_CAPITAL * (df["mid_price_exit"] / base_price): the float *)
(* is kept exact, as the fraction <<numerator, denominator>>.              *)
BuyHold(d, base_price) ==
    [i \in DOMAIN d |->
        IF d[i]["mid_price_exit"] = NaN THEN NaN
        ELSE <<INITIAL_CAPITAL * d[i]["mid_price_exit"][1], base_price[1]>>]

(* lines 115-137 *)
EquityVsBuyHold ==
    /\ pc = "buyhold"
    /\ IF /\ {"exit_time", "capital_after_exit", "mid_price_exit"} \subseteq Columns(df)
          /\ ValidBase(df[1]["mid_price_exit"])
       THEN /\ buy_hold_capital' = BuyHold(df, df[1]["mid_price_exit"])
            /\ Save("equity_vs_buyhold")
       ELSE UNCHANGED <<buy_hold_capital, saved, out>>
    /\ pc' = "bar"
    /\ UNCHANGED <<exists, data, df, indexer, dir_made, overlay, colors, raised>>

(* x >= 0 in place of x > 0 *)
BarColorNonNegative(x) == IF x # NaN /\ x[1] >= 0 THEN "green" ELSE "red"

(* lambda x: "green" if x > 0 else "red"; NaN > 0 is False *)
BarColor(x) == IF x # NaN /\ x[1] > 0 THEN "green" ELSE "red"

(* lines 140-151 *)
PnlPerTrade ==
    /\ pc = "bar"
    /\ IF "net_pnl" \in Columns(df)
       THEN /\ colors' = [i \in DOMAIN df |-> BarColor(df[i]["net_pnl"])]
            /\ Save("pnl_per_trade")
       ELSE UNCHANGED <<colors, saved, out>>
    /\ pc' = "scatter"
    /\ UNCHANGED <<exists, data, df, indexer, dir_made, overlay, buy_hold_capital, raised>>

(* sns.scatterplot(hue=df["direction"], palette={"LONG": ..., "SHORT": ...}): *)
(* seaborn's categorical hue mapping takes the non-null values of the hue     *)
(* column as its levels and raises ValueError("The palette dictionary is      *)
(* missing keys: ...") when a level is no key of the palette.                 *)
palette == {"LONG", "SHORT"}

HueLevels(d) == {d[i]["direction"][1] : i \in {j \in DOMAIN d : d[j]["direction"] # NaN}}

PaletteMissingKeys(d) ==
    IF "direction" \in Columns(d) THEN HueLevels(d) \ palette ELSE {}

(* lines 154-175 *)
PnlOverTime ==
    /\ pc = "scatter"
    /\ {"exit_time", "net_pnl"} \subseteq Columns(df)
    /\ PaletteMissingKeys(df) = {}
    /\ Save("pnl_over_time")
    /\ pc' = "hist"
    /\ UNCHANGED <<exists, data, df, indexer, dir_made, overlay, buy_hold_capital,
                   colors, raised>>

(* lines 154-163: the ValueError leaves generate_backtest_plots *)
PnlOverTimeRaises ==
    /\ pc = "scatter"
    /\ {"exit_time", "net_pnl"} \subseteq Columns(df)
    /\ PaletteMissingKeys(df) # {}
    /\ raised' = "ValueError"
    /\ pc' = "raised"
    /\ UNCHANGED <<exists, data, df, indexer, dir_made, overlay, buy_hold_capital,
                   colors, saved, out>>

(* line 154, the condition false *)
PnlOverTimeSkipped ==
    /\ pc = "scatter"
    /\ ~({"exit_time", "net_pnl"} \subseteq Columns(df))
    /\ pc' = "hist"
    /\ UNCHANGED <<exists, data, df, indexer, dir_made, overlay, buy_hold_capital,
                   colors, saved, out, raised>>

(* lines 178-188 *)
PnlDistribution ==
    /\ pc = "hist"
    /\ IF "net_pnl" \in Columns(df)
       THEN Save("pnl_distribution")
       ELSE UNCHANGED <<saved, out>>
    /\ pc' = "done"
    /\ UNCHANGED <<exists, data, df, indexer, dir_made, overlay, buy_hold_capital,
                   colors, raised>>

Next ==
    \/ LoadMissing
    \/ LoadEmpty
    \/ LoadFrame
    \/ SortValues
    \/ Derive
    \/ EquityCurve
    \/ EquityVsBuyHold
    \/ PnlPerTrade
    \/ PnlOverTime
    \/ PnlOverTimeRaises
    \/ PnlOverTimeSkipped
    \/ PnlDistribution

Spec == Init /\ [][Next]_vars
----------------------------------------------------------------------------
(* Shorthands of the properties below. *)
Trades == Get(data, "trades", <<>>)

NonEmptyInput == exists /\ Trades # <<>>

AfterSort == NonEmptyInput /\ pc \notin {"load", "sort"}

AfterDerive == NonEmptyInput /\ pc \notin {"load", "sort", "derive"}

Finished == pc \in {"done", "raised"}

\* The record of the log that row i of the table was built from.
Record(i) == Trades[indexer[i]]

\* The keys that occur on at least one record of the log.
KeysOnSomeRecord == UNION {DOMAIN Trades[i] : i \in DOMAIN Trades}

SaveLines(chart) == {k \in DOMAIN out : out[k] = <<"SAVE", chart>>}

Charts ==
    {"equity_curve", "equity_vs_buyhold", "pnl_per_trade", "pnl_over_time",
     "pnl_distribution"}

\* The reference price: mid_price_exit of the first sorted record.
ReferencePrice == <<Record(1)["mid_price_exit"]>>

HasReferencePrice ==
    /\ "mid_price_exit" \in DOMAIN Record(1)
    /\ Record(1)["mid_price_exit"] # 0

RequiredFieldsPresent(chart) ==
    CASE chart = "equity_curve" ->
            {"exit_time", "capital_after_exit"} \subseteq KeysOnSomeRecord
      [] chart = "equity_vs_buyhold" ->
            /\ {"exit_time", "capital_after_exit", "mid_price_exit"} \subseteq KeysOnSomeRecord
            /\ HasReferencePrice
      [] chart = "pnl_per_trade" -> "net_pnl" \in KeysOnSomeRecord
      [] chart = "pnl_over_time" -> {"exit_time", "net_pnl"} \subseteq KeysOnSomeRecord
      [] chart = "pnl_distribution" -> "net_pnl" \in KeysOnSomeRecord

----------------------------------------------------------------------------
(* C1: a missing artifact, or one whose trades are absent or empty, is a   *)
(* soft no-op: exactly one warning line, an early return, no exception, no *)
(* derivation step, no chart and no [SAVE] line.                           *)
C1_SoftNoOp ==
    (~exists \/ Trades = <<>>) =>
        /\ pc \in {"load", "done"}
        /\ raised = ""
        /\ df = <<>> /\ indexer = <<>> /\ buy_hold_capital = <<>> /\ colors = <<>>
        /\ ~overlay
        /\ saved = {}
        /\ \A k \in DOMAIN out : out[k][1] # "SAVE"
        /\ (pc = "load" => out = <<>>)
        /\ (pc = "done" => Len(out) = 1 /\ out[1][1] = "WARN")

C1_Witness ==
    /\ pc = "done"
    /\ exists
    /\ "trades" \in DOMAIN data
    /\ data["trades"] = <<>>
    /\ Len(out) = 1

(* C2: for a non-empty trade set, when the run is over each of the five    *)
(* charts is saved, with exactly one confirmation line, if and only if its *)
(* required fields are present.                                            *)
C2_ChartsIffFields ==
    (NonEmptyInput /\ Finished) =>
        \A chart \in Charts :
            /\ chart \in saved <=> RequiredFieldsPresent(chart)
            /\ Cardinality(SaveLines(chart)) = (IF chart \in saved THEN 1 ELSE 0)

(* C3: whenever the no-spread series is computed, a record's no-spread PnL *)
(* is (adjusted_exit - adjusted_entry) * sign * position_size, with sign   *)
(* +1 for LONG, -1 for SHORT, 0 otherwise, and an absent slippage as 0.    *)
RecordSign(r) ==
    IF "direction" \notin DOMAIN r THEN 0
    ELSE CASE r["direction"] = "LONG" -> 1
           [] r["direction"] = "SHORT" -> -1
           [] OTHER -> 0

RecordSlippage(r, f) == IF f \in DOMAIN r THEN r[f] ELSE 0

RecordPnl(r) ==
    LET sign == RecordSign(r)
        adjusted_entry == r["mid_price_entry"] + sign * RecordSlippage(r, "slippage_entry")
        adjusted_exit == r["mid_price_exit"] - sign * RecordSlippage(r, "slippage_exit")
    IN  (adjusted_exit - adjusted_entry) * sign * r["position_size"]

HasPrices(r) == {"mid_price_entry", "mid_price_exit", "position_size"} \subseteq DOMAIN r

C3_NoSpreadPnl ==
    (AfterDerive /\ "pnl_no_spread" \in Columns(df)) =>
        \A i \in DOMAIN df :
            HasPrices(Record(i)) => df[i]["pnl_no_spread"] = <<RecordPnl(Record(i))>>

C3_Witness ==
    /\ AfterDerive
    /\ "pnl_no_spread" \in Columns(df)
    /\ \E i, j \in DOMAIN df :
          /\ Get(Record(i), "direction", "") = "LONG" /\ df[i]["pnl_no_spread"] = <<20>>
          /\ Get(Record(j), "direction", "") = "FLAT" /\ df[j]["pnl_no_spread"] = <<0>>

(* C4, as stated: whenever capital_no_spread is computed, at every index   *)
(* it is initial_capital + sum(pnl_no_spread[0..i]), also when a record    *)
(* lacks a price or size (the sum read with the missing entries left out,  *)
(* or read as missing from the first missing entry on).                    *)
RECURSIVE TotalOfDefined(_, _)
TotalOfDefined(d, i) ==
    IF i = 0 THEN 0
    ELSE TotalOfDefined(d, i - 1)
            + (IF d[i]["pnl_no_spread"] = NaN THEN 0 ELSE d[i]["pnl_no_spread"][1])

C4_CapitalIsRunningSum ==
    (AfterDerive /\ "capital_no_spread" \in Columns(df)) =>
        \/ \A i \in DOMAIN df :
              df[i]["capital_no_spread"] = <<INITIAL_CAPITAL + TotalOfDefined(df, i)>>
        \/ \A i \in DOMAIN df :
              df[i]["capital_no_spread"] =
                  (IF \E k \in 1..i : df[k]["pnl_no_spread"] = NaN
                   THEN NaN
                   ELSE <<INITIAL_CAPITAL + TotalOfDefined(df, i)>>)

(* C4, amended: capital_no_spread[i] is missing where pnl_no_spread[i] is  *)
(* missing, and otherwise initial_capital + the sum of the defined         *)
(* pnl_no_spread[0..i].                                                    *)
C4_CapitalSkipsMissing ==
    (AfterDerive /\ "capital_no_spread" \in Columns(df)) =>
        \A i \in DOMAIN df :
            df[i]["capital_no_spread"] =
                (IF df[i]["pnl_no_spread"] = NaN
                 THEN NaN
                 ELSE <<INITIAL_CAPITAL + TotalOfDefined(df, i)>>)

C4_Witness ==
    /\ AfterDerive
    /\ "capital_no_spread" \in Columns(df)
    /\ \E i, j \in DOMAIN df :
          /\ i < j
          /\ df[i]["pnl_no_spread"] = NaN
          /\ df[j]["capital_no_spread"] = <<INITIAL_CAPITAL + 20>>

(* C5, as stated: the no-spread series (and the overlay) exists only if    *)
(* all six fields are present on every record.                             *)
C5_AllOrNothingPerRecord ==
    (AfterDerive /\ ({"pnl_no_spread", "capital_no_spread"} \cap Columns(df) # {} \/ overlay)) =>
        \A i \in DOMAIN Trades : no_spread_cols \subseteq DOMAIN Trades[i]

(* C5, amended: the series exists if and only if each of the six fields is *)
(* a key of at least one record; the overlay is drawn only with it; a      *)
(* record that lacks a price or the size has a missing entry in it.        *)
C5_GatedPerColumn ==
    AfterDerive =>
        /\ LET gated == no_spread_cols \subseteq KeysOnSomeRecord
           IN  /\ "pnl_no_spread" \in Columns(df) <=> gated
               /\ "capital_no_spread" \in Columns(df) <=> gated
        /\ overlay => "capital_no_spread" \in Columns(df)
        /\ (pc \notin {"equity"} /\ "capital_no_spread" \in Columns(df)) =>
              (overlay <=> "equity_curve" \in saved)
        /\ "pnl_no_spread" \in Columns(df) =>
              \A i \in DOMAIN df :
                  ~HasPrices(Record(i)) =>
                      df[i]["pnl_no_spread"] = NaN /\ df[i]["capital_no_spread"] = NaN

C5_Witness ==
    /\ pc = "done"
    /\ overlay
    /\ "pnl_no_spread" \in Columns(df)
    /\ \E i, j \in DOMAIN df :
          /\ "mid_price_entry" \notin DOMAIN Record(i)
          /\ "slippage_exit" \notin DOMAIN Record(j)
          /\ df[j]["pnl_no_spread"] = <<20>>

(* C6: the reference price is mid_price_exit of the first sorted record;   *)
(* if it is missing or zero the benchmark is never computed and only the   *)
(* strategy-vs-buy-and-hold chart is skipped, every other chart whose      *)
(* fields are present being saved; otherwise benchmark capital at trade i  *)
(* is initial_capital * (mid_price_exit[i] / reference_price).             *)
C6_Benchmark ==
    (NonEmptyInput /\ Finished
        /\ {"exit_time", "capital_after_exit", "mid_price_exit"} \subseteq KeysOnSomeRecord) =>
        IF HasReferencePrice
        THEN /\ DOMAIN buy_hold_capital = DOMAIN df
             /\ \A i \in DOMAIN df :
                   "mid_price_exit" \in DOMAIN Record(i) =>
                       buy_hold_capital[i] =
                           <<INITIAL_CAPITAL * Record(i)["mid_price_exit"], ReferencePrice[1]>>
        ELSE /\ buy_hold_capital = <<>>
             /\ "equity_vs_buyhold" \notin saved
             /\ \A chart \in Charts \ {"equity_vs_buyhold"} :
                   RequiredFieldsPresent(chart) => chart \in saved

(* C7: after the sort the table is a permutation of the loaded records     *)
(* (none dropped or duplicated, whatever their exit_time), non-decreasing  *)
(* in exit_time among the rows with a timestamp, and every derived series  *)
(* has one entry per row.                                                  *)
C7_SortedPermutation ==
    AfterSort =>
        /\ Len(df) = Len(Trades)
        /\ DOMAIN indexer = DOMAIN Trades
        /\ \A i, j \in DOMAIN indexer : indexer[i] = indexer[j] => i = j
        /\ LET keys == KeysOnSomeRecord
           IN  \A i \in DOMAIN df :
                   LET r == Record(i)
                   IN  \A c \in keys :
                           df[i][c] =
                               (IF c \notin DOMAIN r THEN NaN
                                ELSE IF c \in {"entry_time", "exit_time"}
                                     THEN to_datetime(<<r[c]>>)
                                     ELSE <<r[c]>>)
        /\ "exit_time" \in Columns(df) =>
              \A i, j \in DOMAIN df :
                  (i < j /\ df[i]["exit_time"] # NaT /\ df[j]["exit_time"] # NaT) =>
                      df[i]["exit_time"][1] <= df[j]["exit_time"][1]
        /\ buy_hold_capital # <<>> => DOMAIN buy_hold_capital = DOMAIN df
        /\ colors # <<>> => DOMAIN colors = DOMAIN df

C7_Witness ==
    /\ pc = "done"
    /\ indexer = <<2, 1>>
    /\ df[1]["exit_time"] = <<1>>
    /\ df[2]["exit_time"] = <<2>>
    /\ "pnl_no_spread" \in Columns(df)

(* C8, as stated: a bar is green when net_pnl is zero or positive and red  *)
(* only when net_pnl < 0.                                                  *)
C8_ZeroIsGreen ==
    colors # <<>> =>
        \A i \in DOMAIN colors :
            "net_pnl" \in DOMAIN Record(i) =>
                (colors[i] = "green" <=> Record(i)["net_pnl"] >= 0)

(* C8, amended: a bar is green only when net_pnl > 0; a bar whose net_pnl  *)
(* is exactly zero, negative or missing is red.                            *)
C8_OnlyPositiveIsGreen ==
    colors # <<>> =>
        /\ DOMAIN colors = DOMAIN df
        /\ \A i \in DOMAIN colors :
              colors[i] =
                  (IF "net_pnl" \in DOMAIN Record(i) /\ Record(i)["net_pnl"] > 0
                   THEN "green"
                   ELSE "red")

C8_Witness ==
    /\ "pnl_per_trade" \in saved
    /\ \E i, j \in DOMAIN colors :
          /\ Get(Record(i), "net_pnl", -1) = 0 /\ colors[i] = "red"
          /\ Get(Record(j), "net_pnl", -1) = 5 /\ colors[j] = "green"

(* C9: for a parseable, non-empty trade set nothing raises because of a    *)
(* missing optional field or an unrecognized direction: the run completes  *)
(* and saves every chart whose required fields are present.                *)
C9_NeverRaises ==
    NonEmptyInput =>
        /\ raised = ""
        /\ pc # "raised"
        /\ pc = "done" => \A chart \in Charts : RequiredFieldsPresent(chart) => chart \in saved

(* C10: the sort is stable: rows with equal exit_time, and rows without    *)
(* one, keep their file order.                                             *)
C10_StableSort ==
    (AfterSort /\ "exit_time" \in Columns(df)) =>
        \A i, j \in DOMAIN df :
            (i < j /\ df[i]["exit_time"] = df[j]["exit_time"]) => indexer[i] < indexer[j]
====
